---- MODULE Spec2Model ----
(***************************************************************************)
(* Message delivery in BotFramework-WebChat: the outgoing send saga, the   *)
(* incoming ordering saga, the activities reducer and the connection       *)
(* lifecycle, as written in docs/examples/message-delivery-demo.tsx and in *)
(* the sagas quoted by MESSAGE_DELIVERY.md.                                *)
(*                                                                         *)
(* Two programs share the transcript and the reducer:                      *)
(*   Spec    the demo pipeline (messagingSaga: both sagas at the root,     *)
(*           the echo-back synthesised locally, no connection handling);   *)
(*   DLSpec  the Direct Line pipeline (postActivity and observeActivity    *)
(*           forked under whileConnected, echo-back on the inbound stream).*)
(* Smaller ones stand beside them:                                         *)
(*   ReducerSpec    activitiesReducer under every sequence of actions;     *)
(*   ReconnectSpec  reconnectSaga;                                         *)
(*   RetrySpec      DLSpec with sends started by postActivityWithRetry;    *)
(*   ConnectSpec    connectSaga under every sequence of statuses;          *)
(*   LifecycleSpec  whileConnected under every sequence of lifecycle       *)
(*                  actions;                                               *)
(*   PromiseQueueSpec  createPromiseQueue under every interleaving of      *)
(*                  push and shift calls.                                  *)
(***************************************************************************)
EXTENDS Integers, Sequences, FiniteSets, TLC

\* ------------------------------------------------------------------ bounds
MaxDispatch == 3   \* POST_ACTIVITY and QUEUE_INCOMING_ACTIVITY dispatched from outside in one run
MaxIds == 3        \* distinct ids the inbound stream may carry
\* POST_ACTIVITY dispatches and activity$ emissions in one run of the Direct Line pipeline
MaxTraffic == 2

\* --------------------------------------------------------------- constants
NoId == 0          \* an absent optional field (id?, replyToId?, clientActivityID?)

ClientIds == 1..MaxDispatch
InboundIds == 1..MaxIds
\* the id the service assigns to the echo of submission c: `echo_${clientActivityID}`
EchoId(c) == MaxIds + c
\* the id of the simulated reply to submission c: `bot_${Date.now()}_${Math.random()}`
BotId(c) == MaxIds + MaxDispatch + c

\* the connection states of the Connection State Management diagram
ConnectionStates ==
  {"Uninitialized", "Connecting", "Online", "Reconnecting", "Failed", "Disconnected"}

VARIABLES
  activities,        \* state.activities: the transcript
  nextClientId,      \* clientActivityIDs handed out so far
  sendPc,            \* sendPc[c]: where the send saga of submission c stands
  outcomes,          \* outcomes[c]: the actions dispatched with meta.clientActivityID = c, in order
  waiting,           \* activities whose queueIncomingActivity saga is blocked in its race, in take order
  queued,            \* QUEUE_INCOMING_ACTIVITY dispatched from outside the sagas so far
  ingested,          \* ids of every activity a queueIncomingActivity saga was started for
  warned,            \* ids for which the timeout branch logged its warning
  deferred,          \* ids of the activities whose saga had to block in waitForActivityId
  connectionStatus,  \* state.connectionStatus
  task,              \* whether the task forked by whileConnected is alive
  inbox,             \* activity$ emissions queued by observeEach, not yet shifted
  transmitted,       \* <<c, status>>: directLine.postActivity called for c while the status was `status`
  lost,              \* POST_ACTIVITY dispatched while no saga was taking it
  reconnectPc,       \* where reconnectSaga stands: "idle" (not running), "calling", "delaying"
  attempt,           \* failed establishConnection calls of the running reconnectSaga
  delays,            \* delays[r]: the delays reconnectSaga waited in its r-th run, in order
  retryAttempt,      \* retryAttempt[c]: `attempt` of the postActivityWithRetry iteration that sent c
  connectPc,         \* where connectSaga stands: "take", "returned", "threw"
  observed,          \* the statuses dispatched with UPDATE_CONNECTION_STATUS, in order
  wc,                \* whileConnected: the take it stands at, and its forked tasks alive
  lifecycle,         \* the lifecycle actions dispatched, in order
  queue,             \* createPromiseQueue: values pushed and not yet shifted
  resolvers,         \* createPromiseQueue: the shift calls waiting for a push, by call number
  pushed,            \* the values passed to push, in call order
  shifts             \* shifts[k]: what the promise of the k-th shift call resolved with

vars == <<activities, nextClientId, sendPc, outcomes, waiting, queued, ingested, warned, deferred,
          connectionStatus, task, inbox, transmitted, lost, reconnectPc, attempt, delays,
          retryAttempt, connectPc, observed, wc, lifecycle, queue, resolvers, pushed, shifts>>

lcVars == <<connectPc, observed, wc, lifecycle>>

pqVars == <<queue, resolvers, pushed, shifts>>

rcVars == <<reconnectPc, attempt, delays, retryAttempt, lcVars, pqVars>>

\* --------------------------------------------------------------- activities
\* WebChatActivity, reduced to the fields the sagas and the reducer read.
Activity(id, cid, status, replyToId, role) ==
  [id |-> id, clientActivityID |-> cid, status |-> status, replyToId |-> replyToId, role |-> role]

\* activities.some(activity => activity.id === activityId)
HasId(state, activityId) == \E k \in 1..Len(state) : state[k].id = activityId

\* the outgoing activity postActivitySaga builds: no id, clientActivityID, 'sending'
OutgoingActivity(c) == Activity(NoId, c, "sending", NoId, "user")

\* the echo-back: same activity with the server id, 'sent'
EchoBack(c) == Activity(EchoId(c), c, "sent", NoId, "user")

\* a bot reply whose replyToId is taken from the clientActivityID of the user activity
BotActivityToClientId(c) == Activity(BotId(c), NoId, "none", c, "bot")

\* the simulated bot reply to the echo of c
BotActivity(c) == Activity(BotId(c), NoId, "none", EchoId(c), "bot")

\* the ids an inbound activity with id i may name as its replyToId: none, an
\* earlier inbound id, or (for the first id) the echo of a submission
Parents(i) ==
  {NoId} \cup (IF i > 1 THEN 1..(i - 1) ELSE {EchoId(c) : c \in ClientIds})

\* what the outside dispatches as QUEUE_INCOMING_ACTIVITY: bot activities with an id
InboundActivities ==
  UNION { { Activity(i, NoId, "none", r, "bot") : r \in Parents(i) } : i \in InboundIds }

\* ------------------------------------------------------------------ reducer
\* a PENDING case that puts the new outgoing activity in front
ReducePendingPrepends(state, activity) == <<activity>> \o state

\* case POST_ACTIVITY_PENDING
ReducePending(state, activity) == Append(state, activity)

\* a FULFILLED case that drops the pending entry and appends the echo at the end
ReduceFulfilledMoves(state, cid, activity) ==
  Append(SelectSeq(state, LAMBDA a : a.clientActivityID # cid), activity)

\* a FULFILLED case that takes every entry still 'sending' for the one confirmed
ReduceFulfilledAnySending(state, cid, activity) ==
  [k \in 1..Len(state) |->
     IF state[k].status = "sending" THEN activity ELSE state[k]]

\* case POST_ACTIVITY_FULFILLED
ReduceFulfilled(state, cid, activity) ==
  [k \in 1..Len(state) |->
     IF state[k].clientActivityID = cid THEN activity ELSE state[k]]

\* a REJECTED case that marks every entry, whatever its clientActivityID
ReduceRejectedAll(state, cid) ==
  [k \in 1..Len(state) |-> [state[k] EXCEPT !.status = "failed"]]

\* a REJECTED case that takes the failed entry out of the transcript
ReduceRejectedDrops(state, cid) ==
  SelectSeq(state, LAMBDA a : a.clientActivityID # cid)

\* case POST_ACTIVITY_REJECTED
ReduceRejected(state, cid) ==
  [k \in 1..Len(state) |->
     IF state[k].clientActivityID = cid
       THEN [state[k] EXCEPT !.status = "failed"]
       ELSE state[k]]

\* an INCOMING_ACTIVITY case that puts the new activity in front
ReduceIncomingPrepends(state, activity) ==
  IF \E k \in 1..Len(state) : state[k].id = activity.id
    THEN state
    ELSE <<activity>> \o state

\* a reducer that appends every INCOMING_ACTIVITY, without the duplicate check
ReduceIncomingNoCheck(state, activity) == Append(state, activity)

\* an INCOMING_ACTIVITY case that threads: the replies already in the transcript are
\* moved behind the activity they reply to
ReduceIncomingThreads(state, activity) ==
  IF \E k \in 1..Len(state) : state[k].id = activity.id
    THEN state
    ELSE SelectSeq(state, LAMBDA a : a.replyToId # activity.id)
           \o <<activity>>
           \o SelectSeq(state, LAMBDA a : a.replyToId = activity.id)

\* case INCOMING_ACTIVITY
ReduceIncoming(state, activity) ==
  IF \E k \in 1..Len(state) : state[k].id = activity.id
    THEN state
    ELSE Append(state, activity)

activitiesReducer(state, action) ==
  CASE action.type = "POST_ACTIVITY_PENDING" -> ReducePending(state, action.activity)
    [] action.type = "POST_ACTIVITY_FULFILLED" -> ReduceFulfilled(state, action.cid, action.activity)
    [] action.type = "POST_ACTIVITY_REJECTED" -> ReduceRejected(state, action.cid)
    [] action.type = "INCOMING_ACTIVITY" -> ReduceIncoming(state, action.activity)
    [] OTHER -> state

Action(type, cid, activity) == [type |-> type, cid |-> cid, activity |-> activity]

\* ------------------------------------------------- incoming ordering saga
\* The waiters a dispatched INCOMING_ACTIVITY releases: every saga blocked in
\* waitForActivityId is resumed by take(INCOMING_ACTIVITY), selects the activities
\* again and returns when its replyToId is now among them.
Found(ws, state) == SelectSeq(ws, LAMBDA w : HasId(state, w.replyToId))
StillWaiting(ws, state) == SelectSeq(ws, LAMBDA w : ~HasId(state, w.replyToId))

\* put(incomingActivity(a)) for each a of q in turn: the reducer runs, then the
\* waiters it releases put their own INCOMING_ACTIVITY after the ones already queued.
RECURSIVE PutIncoming(_, _, _)
PutIncoming(q, state, ws) ==
  IF q = <<>>
    THEN [activities |-> state, waiting |-> ws]
    ELSE LET next == activitiesReducer(state, Action("INCOMING_ACTIVITY", NoId, Head(q)))
         IN PutIncoming(Tail(q) \o Found(ws, next), next, StillWaiting(ws, next))

\* a saga that puts INCOMING_ACTIVITY at once, without looking at replyToId
queueIncomingActivityNoWait(activity, state, ws) == PutIncoming(<<activity>>, state, ws)

\* a saga that queues behind whatever is already waiting
queueIncomingActivitySerial(activity, state, ws) ==
  IF ws # <<>> \/ (activity.replyToId # NoId /\ ~HasId(state, activity.replyToId))
    THEN [activities |-> state, waiting |-> Append(ws, activity)]
    ELSE PutIncoming(<<activity>>, state, ws)

\* queueIncomingActivitySaga, from its start to its first blocking effect
queueIncomingActivitySaga(activity, state, ws) ==
  IF activity.replyToId # NoId /\ ~HasId(state, activity.replyToId)
    THEN [activities |-> state, waiting |-> Append(ws, activity)]
    ELSE PutIncoming(<<activity>>, state, ws)

\* the id of an activity whose saga blocks at its start (for the record of deferrals)
Blocks(activity, state) ==
  IF activity.replyToId # NoId /\ ~HasId(state, activity.replyToId) THEN {activity.id} ELSE {}

RemoveAt(seq, k) == SubSeq(seq, 1, k - 1) \o SubSeq(seq, k + 1, Len(seq))

\* a timeout branch that ends the saga without putting INCOMING_ACTIVITY
TimeoutBranchDrops(k, state, ws) == [activities |-> state, waiting |-> RemoveAt(ws, k)]

\* the race's timeout branch of the k-th waiter: warn, then put INCOMING_ACTIVITY
TimeoutBranch(k, state, ws) == PutIncoming(<<ws[k]>>, state, RemoveAt(ws, k))

\* ------------------------------------------------------- demo: send saga
dlVars == <<connectionStatus, task, inbox, transmitted, lost>>
inVars == <<waiting, queued, ingested, warned, deferred>>

\* put({ type, meta: { clientActivityID: c }, payload }): the reducer runs and the action
\* is on record, with the error it carries (POST_ACTIVITY_REJECTED) or "none"
Dispatch(type, c, activity, error) ==
  /\ activities' = activitiesReducer(activities, Action(type, c, activity))
  /\ outcomes' = [outcomes EXCEPT ![c] = Append(@, [type |-> type, error |-> error])]

\* an id generator that hands out the same id again
uniqueIDRepeats(n) == IF n = 0 THEN 1 ELSE n

\* the clientActivityID of the submission that follows n earlier ones: the timestamp
\* and random number it is built from are taken never to repeat
uniqueID(n) == n + 1

\* POST_ACTIVITY taken by takeEvery: postActivitySaga runs to its first delay
PostActivity ==
  /\ nextClientId + queued + lost < MaxDispatch
  /\ LET c == uniqueID(nextClientId)
     IN /\ nextClientId' = c
        /\ Dispatch("POST_ACTIVITY_PENDING", c, OutgoingActivity(c), "none")
        /\ sendPc' = [sendPc EXCEPT ![c] = "delay"]
  /\ UNCHANGED <<rcVars, inVars, dlVars>>

\* a catch block that swallows the error: no POST_ACTIVITY_REJECTED
NetworkTimeoutSwallowed(c) ==
  /\ sendPc[c] = "delay"
  /\ sendPc' = [sendPc EXCEPT ![c] = "done"]
  /\ UNCHANGED <<rcVars, activities, outcomes, nextClientId, inVars, dlVars>>

\* the network delay is over and the simulated failure strikes: throw, catch, REJECTED
NetworkTimeout(c) ==
  /\ sendPc[c] = "delay"
  /\ Dispatch("POST_ACTIVITY_REJECTED", c, OutgoingActivity(c), "Network timeout")
  /\ sendPc' = [sendPc EXCEPT ![c] = "done"]
  /\ UNCHANGED <<rcVars, nextClientId, inVars, dlVars>>

\* the network delay is over, no failure: FULFILLED with the echo-back, then the second delay
Fulfilled(c) ==
  /\ sendPc[c] = "delay"
  /\ Dispatch("POST_ACTIVITY_FULFILLED", c, EchoBack(c), "none")
  /\ sendPc' = [sendPc EXCEPT ![c] = "botDelay"]
  /\ UNCHANGED <<rcVars, nextClientId, inVars, dlVars>>

\* a simulateBotResponse that throws inside the try block: the catch dispatches REJECTED
SimulateBotResponseThrows(c) ==
  /\ sendPc[c] = "botDelay"
  /\ Dispatch("POST_ACTIVITY_REJECTED", c, OutgoingActivity(c), "simulateBotResponse")
  /\ sendPc' = [sendPc EXCEPT ![c] = "done"]
  /\ UNCHANGED <<rcVars, nextClientId, inVars, dlVars>>

\* the second delay is over: call(simulateBotResponse, echoBack) queues the bot's reply,
\* which starts a queueIncomingActivitySaga, and the send saga returns
SimulateBotResponse(c) ==
  /\ sendPc[c] = "botDelay"
  /\ LET r == queueIncomingActivitySaga(BotActivity(c), activities, waiting)
     IN /\ activities' = r.activities
        /\ waiting' = r.waiting
  /\ ingested' = ingested \cup {BotId(c)}
  /\ deferred' = deferred \cup Blocks(BotActivity(c), activities)
  /\ sendPc' = [sendPc EXCEPT ![c] = "done"]
  /\ UNCHANGED <<rcVars, nextClientId, outcomes, queued, warned, dlVars>>

\* ---------------------------------------------------- demo: incoming saga
\* QUEUE_INCOMING_ACTIVITY dispatched from outside (queueIncomingActivity is exported);
\* a reply to an echo exists only once that submission was made
QueueIncomingActivity(a) ==
  /\ nextClientId + queued + lost < MaxDispatch
  /\ a.replyToId \in InboundIds \cup {NoId} \cup {EchoId(c) : c \in 1..nextClientId}
  /\ queued' = queued + 1
  /\ LET r == queueIncomingActivitySaga(a, activities, waiting)
     IN /\ activities' = r.activities
        /\ waiting' = r.waiting
  /\ ingested' = ingested \cup {a.id}
  /\ deferred' = deferred \cup Blocks(a, activities)
  /\ UNCHANGED <<rcVars, nextClientId, sendPc, outcomes, warned, dlVars>>

\* delay(5000) wins the race of the k-th waiting saga
Timeout(k) ==
  /\ k \in 1..Len(waiting)
  /\ warned' = warned \cup {waiting[k].id}
  /\ LET r == TimeoutBranch(k, activities, waiting)
     IN /\ activities' = r.activities
        /\ waiting' = r.waiting
  /\ UNCHANGED <<rcVars, nextClientId, sendPc, outcomes, queued, ingested, deferred, dlVars>>

\* initialState, and messagingSaga started
Init ==
  /\ activities = <<>>
  /\ nextClientId = 0
  /\ sendPc = [c \in ClientIds |-> "idle"]
  /\ outcomes = [c \in ClientIds |-> <<>>]
  /\ waiting = <<>>
  /\ queued = 0
  /\ ingested = {}
  /\ warned = {}
  /\ deferred = {}
  /\ connectionStatus = "Online"
  /\ task = FALSE
  /\ inbox = <<>>
  /\ transmitted = {}
  /\ lost = 0
  /\ reconnectPc = "idle"
  /\ attempt = 0
  /\ delays = <<>>
  /\ retryAttempt = [c \in ClientIds |-> 1]
  /\ connectPc = "take"
  /\ observed = <<>>
  /\ wc = [pc |-> "takeFulfilling", tasks |-> 0]
  /\ lifecycle = <<>>
  /\ queue = <<>>
  /\ resolvers = <<>>
  /\ pushed = <<>>
  /\ shifts = <<>>

Next ==
  \/ PostActivity
  \/ \E c \in ClientIds : NetworkTimeout(c)
  \/ \E c \in ClientIds : Fulfilled(c)
  \/ \E c \in ClientIds : SimulateBotResponse(c)
  \/ \E a \in InboundActivities : QueueIncomingActivity(a)
  \/ \E k \in 1..MaxDispatch : Timeout(k)

Spec == Init /\ [][Next]_vars

\* ------------------------------------------------- Direct Line: lifecycle
\* a diagram in which a disconnected session can be connected again
TransitionsWithRestart ==
  { <<"Uninitialized", "Connecting">>, <<"Connecting", "Online">>, <<"Connecting", "Failed">>,
    <<"Online", "Reconnecting">>, <<"Reconnecting", "Online">>, <<"Reconnecting", "Failed">>,
    <<"Failed", "Connecting">>, <<"Online", "Disconnected">>, <<"Disconnected", "Connecting">> }

\* the transitions of the Connection State Management diagram
Transitions ==
  { <<"Uninitialized", "Connecting">>, <<"Connecting", "Online">>, <<"Connecting", "Failed">>,
    <<"Online", "Reconnecting">>, <<"Reconnecting", "Online">>, <<"Reconnecting", "Failed">>,
    <<"Failed", "Connecting">>, <<"Online", "Disconnected">> }

\* the lifecycle action dispatched with a status change: the connection is handed to
\* the sagas when it comes online and taken back when it leaves Online or is torn down
Lifecycle(from, to) ==
  CASE from = "Connecting" /\ to = "Online" -> "CONNECT_FULFILLING"
    [] from = "Reconnecting" /\ to = "Online" -> "RECONNECT_FULFILLING"
    [] from = "Online" /\ to = "Reconnecting" -> "RECONNECT_PENDING"
    [] to = "Disconnected" -> "DISCONNECT_PENDING"
    [] OTHER -> "none"

\* a whileConnected that forks once and never cancels its task
whileConnectedNoCancel(alive, action) ==
  alive \/ action \in {"CONNECT_FULFILLING", "RECONNECT_FULFILLING"}

\* whileConnected: whether its forked task is alive after `action`. It waits for
\* CONNECT_FULFILLING or RECONNECT_FULFILLING and forks; then waits for DISCONNECT_PENDING
\* or RECONNECT_PENDING and cancels; an action it is not waiting for passes it by.
whileConnected(alive, action) ==
  IF alive
    THEN action \notin {"DISCONNECT_PENDING", "RECONNECT_PENDING"}
    ELSE action \in {"CONNECT_FULFILLING", "RECONNECT_FULFILLING"}

\* cancel(task): every send saga forked in the task ends where it stands, without
\* entering its catch block
Cancelled(pcs) ==
  [c \in ClientIds |-> IF pcs[c] \in {"posting", "echo"} THEN "cancelled" ELSE pcs[c]]

sendVars == <<activities, nextClientId, outcomes>>

\* the connection status changes and the lifecycle action reaches whileConnected; the
\* cancelled observeEach unsubscribes, which drops what its queue still holds
UpdateConnectionStatus(to) ==
  /\ <<connectionStatus, to>> \in Transitions
  /\ connectionStatus' = to
  /\ task' = whileConnected(task, Lifecycle(connectionStatus, to))
  /\ IF task /\ ~task'
       THEN sendPc' = Cancelled(sendPc) /\ inbox' = <<>>
       ELSE UNCHANGED <<sendPc, inbox>>
  /\ UNCHANGED <<rcVars, sendVars, inVars, transmitted, lost>>

\* the statuses the diagram lets the connection enter `to` from
From(to) == {t[1] : t \in {x \in Transitions : x[2] = to}}

Connect ==
  /\ connectionStatus \in From("Connecting")
  /\ UpdateConnectionStatus("Connecting")

TransportReady ==
  /\ connectionStatus \in From("Online")
  /\ UpdateConnectionStatus("Online")

ConnectionFailed ==
  /\ connectionStatus \in From("Failed")
  /\ UpdateConnectionStatus("Failed")

ConnectionLost ==
  /\ connectionStatus \in From("Reconnecting")
  /\ UpdateConnectionStatus("Reconnecting")

Disconnect ==
  /\ connectionStatus \in From("Disconnected")
  /\ UpdateConnectionStatus("Disconnected")

\* ------------------------------------------------- Direct Line: send saga
\* the echo as the service sends it on activity$: the posted activity with its server id
EchoActivity(c) == Activity(EchoId(c), c, "none", NoId, "user")

\* the echo of c has come in on the inbound stream
EchoArrived(c) ==
  \/ EchoId(c) \in ingested
  \/ \E k \in 1..Len(inbox) : inbox[k].id = EchoId(c)

\* POST_ACTIVITY dispatched. takeEvery runs inside the whileConnected task: with the
\* task alive postActivity starts (PENDING, then call(directLine.postActivity));
\* with no task nothing takes the action.
DLPostActivity ==
  /\ nextClientId + queued + lost < MaxTraffic
  /\ IF task
       THEN LET c == uniqueID(nextClientId)
            IN /\ nextClientId' = c
               /\ Dispatch("POST_ACTIVITY_PENDING", c, OutgoingActivity(c), "none")
               /\ transmitted' = transmitted \cup {<<c, connectionStatus>>}
               /\ sendPc' = [sendPc EXCEPT ![c] = "posting"]
               /\ UNCHANGED lost
       ELSE /\ lost' = lost + 1
            /\ UNCHANGED <<sendVars, sendPc, transmitted>>
  /\ UNCHANGED <<rcVars, inVars, connectionStatus, task, inbox>>

\* a catch block that swallows the error: no POST_ACTIVITY_REJECTED
CatchSwallows(c, error) ==
  /\ sendPc' = [sendPc EXCEPT ![c] = "done"]
  /\ UNCHANGED <<activities, outcomes>>

\* a catch block that dispatches POST_ACTIVITY_REJECTED and throws the error on
CatchRethrows(c, error) ==
  /\ Dispatch("POST_ACTIVITY_REJECTED", c, OutgoingActivity(c), error)
  /\ sendPc' = [sendPc EXCEPT ![c] = "thrown"]

\* catch (error): POST_ACTIVITY_REJECTED with the error, and the saga ends
Catch(c, error) ==
  /\ Dispatch("POST_ACTIVITY_REJECTED", c, OutgoingActivity(c), error)
  /\ sendPc' = [sendPc EXCEPT ![c] = "done"]

\* directLine.postActivity returns: the transport accepted the activity
TransportAccept(c) ==
  /\ sendPc[c] = "posting"
  /\ sendPc' = [sendPc EXCEPT ![c] = "echo"]
  /\ UNCHANGED <<rcVars, sendVars, inVars, dlVars>>

\* directLine.postActivity throws
TransportError(c) ==
  /\ sendPc[c] = "posting"
  /\ Catch(c, "TransportError")
  /\ UNCHANGED <<rcVars, nextClientId, inVars, dlVars>>

\* waitForEchoBack returns the echo: POST_ACTIVITY_FULFILLED
Confirm(c) ==
  /\ sendPc[c] = "echo"
  /\ EchoArrived(c)
  /\ Dispatch("POST_ACTIVITY_FULFILLED", c, EchoBack(c), "none")
  /\ sendPc' = [sendPc EXCEPT ![c] = "done"]
  /\ UNCHANGED <<rcVars, nextClientId, inVars, dlVars>>

\* waitForEchoBack gives up at its deadline: the error lands in the catch block
EchoTimeout(c) ==
  /\ sendPc[c] = "echo"
  /\ ~EchoArrived(c)
  /\ Catch(c, "EchoTimeout")
  /\ UNCHANGED <<rcVars, nextClientId, inVars, dlVars>>

\* ------------------------------------------- Direct Line: inbound stream
TransportErrored(c) ==
  \E k \in 1..Len(outcomes[c]) : outcomes[c][k].error = "TransportError"

\* activity$ emits the echo of a posted activity; observeEach's subscriber queues it
TransportEcho(c) ==
  /\ task
  /\ \E st \in ConnectionStates : <<c, st>> \in transmitted
  /\ ~TransportErrored(c)
  /\ ~EchoArrived(c)
  /\ inbox' = Append(inbox, EchoActivity(c))
  /\ UNCHANGED <<rcVars, sendVars, sendPc, inVars, connectionStatus, task, transmitted, lost>>

\* activity$ emits a bot activity; observeEach's subscriber queues it
TransportEmit(a) ==
  /\ task
  /\ nextClientId + queued + lost < MaxTraffic
  /\ a.replyToId \in InboundIds \cup {NoId} \cup {EchoId(c) : c \in 1..nextClientId}
  /\ queued' = queued + 1
  /\ inbox' = Append(inbox, a)
  /\ UNCHANGED <<rcVars, sendVars, sendPc, waiting, ingested, warned, deferred,
                 connectionStatus, task, transmitted, lost>>

\* observeActivity: the next queued emission is shifted and put as
\* QUEUE_INCOMING_ACTIVITY, which starts a queueIncomingActivity saga
ObserveActivity ==
  /\ task
  /\ inbox # <<>>
  /\ inbox' = Tail(inbox)
  /\ LET r == queueIncomingActivitySaga(Head(inbox), activities, waiting)
     IN /\ activities' = r.activities
        /\ waiting' = r.waiting
  /\ ingested' = ingested \cup {Head(inbox).id}
  /\ deferred' = deferred \cup Blocks(Head(inbox), activities)
  /\ UNCHANGED <<rcVars, nextClientId, sendPc, outcomes, queued, warned,
                 connectionStatus, task, transmitted, lost>>

DLInit ==
  /\ activities = <<>>
  /\ nextClientId = 0
  /\ sendPc = [c \in ClientIds |-> "idle"]
  /\ outcomes = [c \in ClientIds |-> <<>>]
  /\ waiting = <<>>
  /\ queued = 0
  /\ ingested = {}
  /\ warned = {}
  /\ deferred = {}
  /\ connectionStatus = "Uninitialized"
  /\ task = FALSE
  /\ inbox = <<>>
  /\ transmitted = {}
  /\ lost = 0
  /\ reconnectPc = "idle"
  /\ attempt = 0
  /\ delays = <<>>
  /\ retryAttempt = [c \in ClientIds |-> 1]
  /\ connectPc = "take"
  /\ observed = <<>>
  /\ wc = [pc |-> "takeFulfilling", tasks |-> 0]
  /\ lifecycle = <<>>
  /\ queue = <<>>
  /\ resolvers = <<>>
  /\ pushed = <<>>
  /\ shifts = <<>>

DLSagaStep ==
  \/ \E c \in ClientIds : TransportAccept(c) \/ TransportError(c)
  \/ \E c \in ClientIds : Confirm(c) \/ EchoTimeout(c)
  \/ ObserveActivity
  \/ \E k \in 1..MaxDispatch : Timeout(k)

DLNext ==
  \/ Connect
  \/ TransportReady
  \/ ConnectionFailed
  \/ ConnectionLost
  \/ Disconnect
  \/ DLPostActivity
  \/ \E c \in ClientIds : TransportEcho(c)
  \/ \E a \in InboundActivities : TransportEmit(a)
  \/ DLSagaStep

DLSpec == DLInit /\ [][DLNext]_vars

DLFairSpec == DLSpec /\ WF_vars(DLSagaStep)

\* ---------------------------------------------------- postActivityWithRetry
maxRetries == 3

\* a postActivity whose catch block throws the error on to its caller
postActivityRethrows(c) ==
  outcomes[c][Len(outcomes[c])].type = "POST_ACTIVITY_REJECTED"

\* whether call(postActivity, activity) ends with an error thrown to its caller:
\* postActivity catches what the transport call and waitForEchoBack throw, dispatches
\* POST_ACTIVITY_REJECTED and returns
postActivityThrows(c) == FALSE

\* call(postActivity, activity) is over and postActivityWithRetry goes on: it returns,
\* or, with an error caught before the last attempt, it waits and calls postActivity
\* again, which stamps a new clientActivityID and transmits
WithRetryResumes(c) ==
  /\ sendPc[c] = "done"
  /\ IF postActivityThrows(c) /\ retryAttempt[c] < maxRetries
       THEN /\ nextClientId + queued + lost < MaxTraffic
            /\ LET d == uniqueID(nextClientId)
               IN /\ nextClientId' = d
                  /\ Dispatch("POST_ACTIVITY_PENDING", d, OutgoingActivity(d), "none")
                  /\ sendPc' = [sendPc EXCEPT ![c] = "returned", ![d] = "posting"]
                  /\ transmitted' = transmitted \cup {<<d, connectionStatus>>}
                  /\ retryAttempt' = [retryAttempt EXCEPT ![d] = retryAttempt[c] + 1]
       ELSE /\ sendPc' = [sendPc EXCEPT ![c] = "returned"]
            /\ UNCHANGED <<sendVars, transmitted, retryAttempt>>
  /\ UNCHANGED <<inVars, connectionStatus, task, inbox, lost, reconnectPc, attempt, delays, lcVars, pqVars>>

RetryNext == DLNext \/ \E c \in ClientIds : WithRetryResumes(c)

RetrySpec == DLInit /\ [][RetryNext]_vars

\* ------------------------------------------------------------ reconnectSaga
\* reconnectSaga failures followed within one run, and runs followed in one session
MaxReconnects == 3
MaxDrops == 3

RECONNECT_INTERVAL == 1

\* a delay that is longer after the first failure than after the later ones
ReconnectDelayShrinks(n) == IF n = 0 THEN RECONNECT_INTERVAL + 1 ELSE RECONNECT_INTERVAL

\* the delay reconnectSaga waits after a failure that follows n earlier ones
ReconnectDelay(n) == RECONNECT_INTERVAL

rcFrame ==
  <<activities, nextClientId, sendPc, outcomes, inVars, task, inbox, transmitted, lost, retryAttempt,
    lcVars, pqVars>>

\* the connection is lost and reconnectSaga starts: the status is not ONLINE, so it
\* enters the loop and calls establishConnection
ReconnectStart ==
  /\ connectionStatus = "Online"
  /\ reconnectPc = "idle"
  /\ Len(delays) < MaxDrops
  /\ connectionStatus' = "Reconnecting"
  /\ reconnectPc' = "calling"
  /\ attempt' = 0
  /\ delays' = Append(delays, <<>>)
  /\ UNCHANGED rcFrame

\* establishConnection throws: catch, delay(RECONNECT_INTERVAL)
EstablishFails ==
  /\ reconnectPc = "calling"
  /\ attempt < MaxReconnects
  /\ reconnectPc' = "delaying"
  /\ attempt' = attempt + 1
  /\ delays' = [delays EXCEPT ![Len(delays)] = Append(@, ReconnectDelay(attempt))]
  /\ UNCHANGED <<rcFrame, connectionStatus>>

\* the delay is over: the status is still not ONLINE, so the loop calls again
DelayElapsed ==
  /\ reconnectPc = "delaying"
  /\ connectionStatus # "Online"
  /\ reconnectPc' = "calling"
  /\ UNCHANGED <<rcFrame, connectionStatus, attempt, delays>>

\* establishConnection returns: put(updateConnectionStatus(ONLINE)); break
EstablishSucceeds ==
  /\ reconnectPc = "calling"
  /\ connectionStatus' = "Online"
  /\ reconnectPc' = "idle"
  /\ attempt' = 0
  /\ UNCHANGED <<rcFrame, delays>>

ReconnectNext ==
  \/ ReconnectStart
  \/ EstablishFails
  \/ DelayElapsed
  \/ EstablishSucceeds

ReconnectSpec == Init /\ [][ReconnectNext]_vars

\* Timers fire and started sagas run on: as long as a delay or a race is pending, one
\* of them ends.
SagaStep ==
  \/ \E c \in ClientIds : NetworkTimeout(c) \/ Fulfilled(c) \/ SimulateBotResponse(c)
  \/ \E k \in 1..MaxDispatch : Timeout(k)

FairSpec == Spec /\ WF_vars(SagaStep)

\* ------------------------------------------------------------------ claims
Terminal == {"POST_ACTIVITY_FULFILLED", "POST_ACTIVITY_REJECTED"}
Types(c) == [k \in 1..Len(outcomes[c]) |-> outcomes[c][k].type]
TerminalCount(c) == Cardinality({k \in 1..Len(outcomes[c]) : outcomes[c][k].type \in Terminal})
Positions == 1..Len(activities)
Sending(c) ==
  \E k \in Positions : activities[k].clientActivityID = c /\ activities[k].status = "sending"
WaitingIds == {waiting[k].id : k \in 1..Len(waiting)}
AllIds == InboundIds \cup {EchoId(c) : c \in ClientIds} \cup {BotId(c) : c \in ClientIds}

\* C1: for every submission at most one terminal action (POST_ACTIVITY_FULFILLED or
\* POST_ACTIVITY_REJECTED) is ever dispatched with its clientActivityID.
C1_AtMostOneTerminal == \A c \in ClientIds : TerminalCount(c) <= 1

\* a send saga that ran to its end after its FULFILLED
C1_Witness ==
  \E c \in ClientIds :
    /\ sendPc[c] = "done"
    /\ Types(c) = <<"POST_ACTIVITY_PENDING", "POST_ACTIVITY_FULFILLED">>

\* C2: every submission whose POST_ACTIVITY_PENDING was dispatched reaches a terminal
\* action, after which no entry of it is in status 'sending': again and again (and, the
\* terminal actions being on record for good, from some point on) all submissions made
\* so far are resolved.
Resolved(c) == Len(outcomes[c]) > 0 => (TerminalCount(c) > 0 /\ ~Sending(c))
C2_EventuallyTerminal == []<>(\A c \in ClientIds : Resolved(c))

\* a submission whose entry went from 'sending' to 'failed'
C2_Witness ==
  \E c \in ClientIds, k \in Positions :
    /\ Types(c) = <<"POST_ACTIVITY_PENDING", "POST_ACTIVITY_REJECTED">>
    /\ activities[k].clientActivityID = c
    /\ activities[k].status = "failed"

\* C3: an INCOMING_ACTIVITY whose id is already in the transcript leaves the transcript
\* unchanged, and no inbound id is in the transcript twice, however the sagas interleave.
C3_InboundOnce ==
  /\ \A a \in InboundActivities :
        HasId(activities, a.id) =>
          activitiesReducer(activities, Action("INCOMING_ACTIVITY", NoId, a)) = activities
  /\ \A j, k \in Positions :
        (j # k /\ activities[j].id = activities[k].id) => activities[j].id \notin AllIds

\* two QUEUE_INCOMING_ACTIVITY for the same id, both sagas over, one entry
C3_Witness ==
  /\ queued = 2
  /\ ingested = {2}
  /\ deferred = {2}
  /\ waiting = <<>>
  /\ Len(activities) = 1
  /\ activities[1].id = 2

\* C4: when the child B of A was not released by its timeout, A is in the transcript
\* strictly before B.
C4_ParentFirst ==
  \A j, k \in Positions :
    ( /\ activities[k].replyToId # NoId
      /\ activities[k].replyToId = activities[j].id
      /\ activities[k].id \notin warned ) => j < k

\* the chain A, B, C: B and C both had to wait, no timeout, and the order is A, B, C
C4_Witness ==
  /\ deferred = {2, 3}
  /\ warned = {}
  /\ Len(activities) = 3
  /\ activities[1].id = 1
  /\ activities[2].id = 2 /\ activities[2].replyToId = 1
  /\ activities[3].id = 3 /\ activities[3].replyToId = 2

\* C5: an inbound activity whose saga waits for its parent is eventually in the
\* transcript, whether or not the parent is ever delivered: every ingested id is waiting
\* or in the transcript, and the waits end.
InboundIn(state) == {state[k].id : k \in 1..Len(state)}
C5_EventuallyDelivered ==
  /\ [](ingested \subseteq WaitingIds \cup InboundIn(activities))
  /\ []<>(waiting = <<>>)

\* B delivered by its timeout, its parent absent
C5_Witness ==
  \E k \in Positions :
    /\ activities[k].id \in warned
    /\ activities[k].replyToId # NoId
    /\ ~HasId(activities, activities[k].replyToId)

\* ------------------------------------------------ Direct Line pipeline
LastOutcome(c) == outcomes[c][Len(outcomes[c])]
FailedWith(c, error) ==
  /\ Len(outcomes[c]) > 0
  /\ LastOutcome(c) = [type |-> "POST_ACTIVITY_REJECTED", error |-> error]
  /\ \E k \in Positions : activities[k].clientActivityID = c /\ activities[k].status = "failed"
  /\ ~Sending(c)

\* C6: no two transcript entries carry the same defined id, in whichever order
\* POST_ACTIVITY_FULFILLED for a submission and the INCOMING_ACTIVITY of its echo are
\* processed.
C6_NoDuplicateIds ==
  \A j, k \in Positions :
    (j # k /\ activities[j].id # NoId) => activities[j].id # activities[k].id

\* C7: once the connection has left Online no send is left 'sending', and a send that was
\* pending when it left is failed with reason ConnectionLost.
C7_LeavingOnlineFailsPending ==
  /\ connectionStatus # "Online" => \A c \in ClientIds : ~Sending(c)
  /\ \A c \in ClientIds : sendPc[c] = "cancelled" => FailedWith(c, "ConnectionLost")

\* C8: after a disconnect no inbound activity is still deferred and every ingested
\* inbound activity is in the transcript.
C8_DisconnectReleasesDeferred ==
  connectionStatus = "Disconnected" =>
    (waiting = <<>> /\ ingested \subseteq InboundIn(activities))

\* C9: a send saga that waits for its echo and is not cancelled stops waiting, and when
\* it stops with no echo arrived POST_ACTIVITY_REJECTED with reason EchoTimeout has been
\* dispatched and the entry is 'failed', no longer 'sending'.
EchoDeadlinePassed(c) == sendPc[c] = "echo" /\ ~EchoArrived(c) /\ sendPc'[c] = "done"
C11_OfflineSubmitAnswered == lost = 0

\* ---------------------------------------------------------- status events
\* the step dispatches the named action for submission c
Dispatched(c, type) ==
  /\ Len(outcomes'[c]) = Len(outcomes[c]) + 1
  /\ outcomes'[c][Len(outcomes'[c])].type = type

\* C12: POST_ACTIVITY_FULFILLED for c puts the echo (server id, 'sent') at the position
\* of c's entry, leaves the other entries and the length alone, and leaves no entry of
\* c 'sending'.
C12_ConfirmReplacesInPlace ==
  [][\A c \in ClientIds : Dispatched(c, "POST_ACTIVITY_FULFILLED") =>
        /\ Len(activities') = Len(activities)
        /\ \E k \in Positions : activities[k].clientActivityID = c
        /\ \A k \in Positions :
             IF activities[k].clientActivityID = c
               THEN /\ activities'[k].id = EchoId(c)
                    /\ activities'[k].status = "sent"
                    /\ activities'[k].clientActivityID = c
               ELSE activities'[k] = activities[k]
        /\ \A k \in Positions :
             activities'[k].clientActivityID = c => activities'[k].status # "sending"]_vars

\* a submission confirmed in place, with a later entry behind it
C12_Witness ==
  /\ Len(activities) >= 2
  /\ Types(1) = <<"POST_ACTIVITY_PENDING", "POST_ACTIVITY_FULFILLED">>
  /\ activities[1].id = EchoId(1) /\ activities[1].status = "sent"
  /\ activities[2].clientActivityID # 1

\* C13: POST_ACTIVITY_PENDING is dispatched before the activity is handed to the
\* transport, and once the transport has accepted it, before any confirmation, its entry
\* carries a status other than the pending one.
C13_SentAfterAccept ==
  \A c \in ClientIds :
    /\ (\E st \in ConnectionStates : <<c, st>> \in transmitted) =>
         (Len(outcomes[c]) > 0 /\ outcomes[c][1].type = "POST_ACTIVITY_PENDING")
    /\ sendPc[c] = "echo" =>
         \A k \in Positions :
           activities[k].clientActivityID = c =>
             activities[k].status # OutgoingActivity(c).status

\* C14: an entry that is 'sent' with its server id set is the same entry, at the same
\* position, after every later step: no REJECTED makes it 'failed', nothing makes it
\* 'sending' again.
Confirmed(a) == a.status = "sent" /\ a.id # NoId
C14_ConfirmedImmutable ==
  [][\A k \in Positions :
        Confirmed(activities[k]) =>
          (k <= Len(activities') /\ activities'[k] = activities[k])]_vars

\* one submission confirmed and a later one rejected next to it
C14_Witness ==
  \E j, k \in Positions :
    /\ Confirmed(activities[j])
    /\ activities[k].status = "failed"
    /\ j < k

\* ------------------------------------------------------ the reducer alone
\* activitiesReducer is exported: here it is applied to every sequence of the four
\* actions, each with the payload its action creator gives it, on a transcript of at
\* most MaxDispatch entries. WebChatActivity.id is optional: an incoming activity
\* may come without one.
IncomingPayloads ==
  {Activity(i, NoId, "none", NoId, "bot") : i \in InboundIds \cup {NoId}}
    \cup {EchoActivity(c) : c \in ClientIds}

Reduce(action) ==
  /\ activities' = activitiesReducer(activities, action)
  /\ UNCHANGED <<rcVars, nextClientId, sendPc, outcomes, inVars, dlVars>>

ReducePendingAction(c) ==
  /\ Len(activities) < MaxDispatch
  /\ Reduce(Action("POST_ACTIVITY_PENDING", c, OutgoingActivity(c)))

ReduceFulfilledAction(c) == Reduce(Action("POST_ACTIVITY_FULFILLED", c, EchoBack(c)))

ReduceRejectedAction(c) == Reduce(Action("POST_ACTIVITY_REJECTED", c, OutgoingActivity(c)))

ReduceIncomingAction(a) ==
  /\ Len(activities) < MaxDispatch
  /\ Reduce(Action("INCOMING_ACTIVITY", NoId, a))

ReducerNext ==
  \/ \E c \in ClientIds : ReducePendingAction(c)
  \/ \E c \in ClientIds : ReduceFulfilledAction(c)
  \/ \E c \in ClientIds : ReduceRejectedAction(c)
  \/ \E a \in IncomingPayloads : ReduceIncomingAction(a)

ReducerSpec == Init /\ [][ReducerNext]_vars

Submitted == {k \in Positions : activities[k].clientActivityID # NoId}
ListedTransitions ==
  { <<"Uninitialized", "Connecting">>, <<"Connecting", "Online">>, <<"Connecting", "Failed">>,
    <<"Online", "Reconnecting">>, <<"Reconnecting", "Online">>, <<"Reconnecting", "Failed">>,
    <<"Failed", "Connecting">>, <<"Online", "Disconnected">>,
    <<"Reconnecting", "Disconnected">>, <<"Connecting", "Disconnected">> }
MaxAttempts == MaxReconnects - 1

\* C18: once the configured maximum of consecutive failed attempts is reached the
\* status is Failed and reconnectSaga has stopped: it neither calls nor waits to call.
C18_ReconnectGivesUp ==
  attempt >= MaxAttempts => (connectionStatus = "Failed" /\ reconnectPc = "idle")

\* the delays of one run, in order
Runs == 1..Len(delays)

\* C19: within a run no delay is smaller than the one before it, and the first delay of
\* every run, the first one and the ones that follow a return to Online, is the
\* base delay.
C19_DelaysNeverShrink ==
  \A r \in Runs :
    /\ \A k \in 1..Len(delays[r]) : k > 1 => delays[r][k] >= delays[r][k - 1]
    /\ Len(delays[r]) > 0 => delays[r][1] = RECONNECT_INTERVAL

\* two failures in the first run, a return to Online, and a failure in the second run
C19_Witness ==
  /\ Len(delays) = 2
  /\ Len(delays[1]) = 2
  /\ Len(delays[2]) = 1
  /\ reconnectPc = "delaying"

\* ------------------------------------------------------------------- retry
Pendings(c) ==
  Cardinality({k \in 1..Len(outcomes[c]) : outcomes[c][k].type = "POST_ACTIVITY_PENDING"})

Waiters(ws) == {ws[k] : k \in 1..Len(ws)}

\* C21: an activity starts to wait only if it names a replyToId that is not in the
\* transcript, whatever else is waiting; every other ingested activity is in the
\* transcript when its step is over.
C21_UnrelatedNotBlocked ==
  /\ [][\A w \in Waiters(waiting') \ Waiters(waiting) :
          w.replyToId # NoId /\ ~HasId(activities, w.replyToId)]_vars
  /\ [](ingested \subseteq WaitingIds \cup InboundIn(activities))

\* B (id 2) waits for the absent id 1 while an activity without replyToId is delivered
C21_Witness ==
  /\ Len(waiting) = 1 /\ waiting[1].id = 2 /\ waiting[1].replyToId = 1
  /\ Len(activities) = 1 /\ activities[1].id = 3 /\ activities[1].replyToId = NoId
  /\ warned = {}

\* C22: no activity is left waiting for an id that is in the transcript, whether the
\* id got there by an INCOMING_ACTIVITY or by a POST_ACTIVITY_FULFILLED.
C22_ReleasedWhenParentPresent ==
  \A w \in Waiters(waiting) : ~HasId(activities, w.replyToId)

\* C23: a QUEUE_INCOMING_ACTIVITY whose activity has an id that is already in the
\* transcript is discarded: the transcript stays as it is, nothing starts to wait,
\* no waiter is released and no warning is logged.
C23_DuplicateDiscarded ==
  [][\A a \in InboundActivities :
        (HasId(activities, a.id) /\ QueueIncomingActivity(a)) =>
          (activities' = activities /\ waiting' = waiting /\ warned' = warned)]_vars

\* C24: a warning is logged exactly for a waiting activity whose deadline passes
\* while no entry of the transcript has its replyToId; the timeout releases the
\* activity and marks no entry 'failed'.
C24_WarningOnlyOnTimeout ==
  [][/\ warned' # warned =>
          \E k \in 1..Len(waiting) :
            /\ Timeout(k)
            /\ ~HasId(activities, waiting[k].replyToId)
     /\ \A k \in 1..Len(waiting) :
          Timeout(k) =>
            /\ waiting[k].id \in warned'
            /\ HasId(activities', waiting[k].id)
            /\ \A i \in 1..Len(activities') :
                 activities'[i].status = "failed" =>
                   i <= Len(activities) /\ activities[i].status = "failed"]_vars

\* C25: whatever action the reducer gets, the transcript keeps its entries at their
\* positions (an outgoing entry may be updated, and stays the entry of the same
\* clientActivityID; an incoming entry stays as it is) and grows by at most one entry,
\* at the end.
C25_AppendOnly ==
  [][/\ Len(activities') \in {Len(activities), Len(activities) + 1}
     /\ \A k \in Positions :
          /\ k <= Len(activities')
          /\ activities'[k].clientActivityID = activities[k].clientActivityID
          /\ activities[k].clientActivityID = NoId => activities'[k] = activities[k]]_vars

\* a confirmed entry, a failed entry and an incoming entry, in the order they came in
C25_Witness ==
  /\ Len(activities) = 3
  /\ activities[1].clientActivityID = 1 /\ activities[1].status = "sent"
  /\ activities[2].clientActivityID = 2 /\ activities[2].status = "failed"
  /\ activities[3].clientActivityID = NoId /\ activities[3].id = 1

\* what the components read: state.activities, as it is
useActivities == activities

\* C26: every entry a consumer reads is a confirmed outgoing activity ('sent', with
\* its server id) or an incoming activity that was released; no entry is 'sending'
\* or 'failed'.
C26_OnlyDeliveredEntries ==
  \A k \in 1..Len(useActivities) :
    \/ Confirmed(useActivities[k])
    \/ useActivities[k].role = "bot" /\ useActivities[k].status = "none"

\* this step puts the transport's error on the record of c
ErroredStep(c) ==
  /\ Len(outcomes'[c]) = Len(outcomes[c]) + 1
  /\ outcomes'[c][Len(outcomes'[c])].error = "TransportError"

deliveredIds == {activities[k].id : k \in Positions} \ {NoId}

\* a cap for the delivered ids, below the number of activities a run can deliver
DeliveredCap == 2

\* C28: the ids kept for the duplicate and dependency checks are never more than
\* the cap.
C28_DeliveredSetCapped == Cardinality(deliveredIds) <= DeliveredCap

\* -------------------------------------------------------------- connectSaga
\* ConnectionStatus
UNINITIALIZED == 0
CONNECTING == 1
ONLINE == 2
RECONNECTING == 3
FAILED == 4

Statuses == {UNINITIALIZED, CONNECTING, ONLINE, RECONNECTING, FAILED}

\* UPDATE_CONNECTION_STATUS actions followed in one run
MaxObserved == 3

\* a loop body that goes on waiting whatever status is not ONLINE
connectSagaWaitsOn(status) ==
  IF status = ONLINE THEN "returned" ELSE "take"

\* the body of the for (;;) loop, once take(UPDATE_CONNECTION_STATUS) has its action:
\* ONLINE returns the cleanup function, a status other than UNINITIALIZED and
\* CONNECTING throws, and those two go round the loop
connectSagaTakes(status) ==
  IF status = ONLINE
    THEN "returned"
    ELSE IF status # UNINITIALIZED /\ status # CONNECTING
      THEN "threw"
      ELSE "take"

lcFrame ==
  <<activities, nextClientId, sendPc, outcomes, inVars, dlVars, reconnectPc, attempt, delays,
    retryAttempt, pqVars>>

\* UPDATE_CONNECTION_STATUS is dispatched while connectSaga waits in its take
ConnectSagaResumes(status) ==
  /\ connectPc = "take"
  /\ Len(observed) < MaxObserved
  /\ observed' = Append(observed, status)
  /\ connectPc' = connectSagaTakes(status)
  /\ UNCHANGED <<lcFrame, wc, lifecycle>>

\* UPDATE_CONNECTION_STATUS is dispatched after connectSaga has ended: nothing takes it
StatusPassesBy(status) ==
  /\ connectPc # "take"
  /\ Len(observed) < MaxObserved
  /\ observed' = Append(observed, status)
  /\ UNCHANGED <<lcFrame, connectPc, wc, lifecycle>>

ConnectNext ==
  \/ \E status \in Statuses : ConnectSagaResumes(status)
  \/ \E status \in Statuses : StatusPassesBy(status)

ConnectSpec == DLInit /\ [][ConnectNext]_vars

\* the statuses before the n-th observed one are all UNINITIALIZED or CONNECTING
OnlyStartingBefore(n) ==
  \A k \in 1..(n - 1) : observed[k] \in {UNINITIALIZED, CONNECTING}

Fulfilling == {"CONNECT_FULFILLING", "RECONNECT_FULFILLING"}
Pending == {"DISCONNECT_PENDING", "RECONNECT_PENDING"}

\* lifecycle actions followed in one run
MaxLifecycle == 4

\* a loop that forks on every CONNECT_FULFILLING and RECONNECT_FULFILLING, wherever it
\* stands, and cancels the last task only
whileConnectedForksAgain(w, action) ==
  IF action \in Fulfilling
    THEN [pc |-> "takePending", tasks |-> w.tasks + 1]
    ELSE IF w.pc = "takePending" /\ action \in Pending
      THEN [pc |-> "takeFulfilling", tasks |-> w.tasks - 1]
      ELSE w

\* one lifecycle action reaching the for (;;) loop of whileConnected: at the first take
\* CONNECT_FULFILLING or RECONNECT_FULFILLING forks fn and moves to the second take;
\* there DISCONNECT_PENDING or RECONNECT_PENDING cancels the task and goes round; an
\* action the current take does not name passes by
whileConnectedEffect(w, action) ==
  IF w.pc = "takeFulfilling"
    THEN IF action \in Fulfilling
           THEN [pc |-> "takePending", tasks |-> w.tasks + 1]
           ELSE w
    ELSE IF action \in Pending
           THEN [pc |-> "takeFulfilling", tasks |-> w.tasks - 1]
           ELSE w

\* a lifecycle action is dispatched
LifecycleAction(action) ==
  /\ Len(lifecycle) < MaxLifecycle
  /\ lifecycle' = Append(lifecycle, action)
  /\ wc' = whileConnectedEffect(wc, action)
  /\ UNCHANGED <<lcFrame, connectPc, observed>>

LifecycleNext == \E action \in Fulfilling \cup Pending : LifecycleAction(action)

LifecycleSpec == DLInit /\ [][LifecycleNext]_vars

\* C30: whileConnected has at most one forked task alive; the number of tasks goes up
\* only with CONNECT_FULFILLING or RECONNECT_FULFILLING, and a task is alive exactly
\* while the last lifecycle action was one of these two: from DISCONNECT_PENDING or
\* RECONNECT_PENDING to the next of them no task runs.
C30_AtMostOneTask ==
  /\ [](wc.tasks \in {0, 1})
  /\ [](wc.tasks = 1 <=>
          (lifecycle # <<>> /\ lifecycle[Len(lifecycle)] \in Fulfilling))
  /\ [][wc'.tasks > wc.tasks => lifecycle'[Len(lifecycle')] \in Fulfilling]_vars

\* connected, reconnected while the task of the first connection was alive, then
\* disconnected, then connected again: one task
C30_Witness ==
  /\ lifecycle = <<"CONNECT_FULFILLING", "RECONNECT_FULFILLING", "DISCONNECT_PENDING",
                   "CONNECT_FULFILLING">>
  /\ wc.tasks = 1

\* ------------------------------------------------------- createPromiseQueue
\* what an observable may hand to queue.push: two values, and undefined
PushValues == {"a", "b", "undefined"}

\* the promise of a shift call that no push has resolved
Unresolved == "unresolved"

\* push and shift calls followed in one run
MaxCalls == 4

pqFrame ==
  <<activities, nextClientId, sendPc, outcomes, inVars, dlVars, reconnectPc, attempt, delays,
    retryAttempt, lcVars>>

\* Array.prototype.shift of the queue array: undefined when the array is empty
QueueShift == IF queue = <<>> THEN "undefined" ELSE Head(queue)

\* push(value): the oldest waiting resolver is called with the value, or, with none
\* waiting, the value goes to the end of the queue
Push(value) ==
  /\ Len(pushed) + Len(shifts) < MaxCalls
  /\ pushed' = Append(pushed, value)
  /\ IF resolvers # <<>>
       THEN /\ resolvers' = Tail(resolvers)
            /\ shifts' = [shifts EXCEPT ![Head(resolvers)] = value]
            /\ UNCHANGED queue
       ELSE /\ queue' = Append(queue, value)
            /\ UNCHANGED <<resolvers, shifts>>
  /\ UNCHANGED pqFrame

\* shift(): the head of the queue is taken off; if it is not undefined the promise
\* resolves with it, else its resolver is put behind the waiting ones
Shift ==
  /\ Len(pushed) + Len(shifts) < MaxCalls
  /\ queue' = IF queue = <<>> THEN queue ELSE Tail(queue)
  /\ IF QueueShift # "undefined"
       THEN /\ shifts' = Append(shifts, QueueShift)
            /\ UNCHANGED resolvers
       ELSE /\ shifts' = Append(shifts, Unresolved)
            /\ resolvers' = Append(resolvers, Len(shifts) + 1)
  /\ UNCHANGED <<pqFrame, pushed>>

PromiseQueueNext ==
  \/ \E value \in PushValues : Push(value)
  \/ Shift

PromiseQueueSpec == DLInit /\ [][PromiseQueueNext]_vars

C32_OnlyMatchingEntriesChange ==
  \A c \in ClientIds :
    LET fulfilled == activitiesReducer(activities, Action("POST_ACTIVITY_FULFILLED", c, EchoBack(c)))
        rejected == activitiesReducer(activities, Action("POST_ACTIVITY_REJECTED", c, OutgoingActivity(c)))
    IN /\ Len(fulfilled) = Len(activities)
       /\ Len(rejected) = Len(activities)
       /\ \A k \in Positions :
            IF activities[k].clientActivityID # c
              THEN fulfilled[k] = activities[k] /\ rejected[k] = activities[k]
              ELSE \A f \in {"id", "clientActivityID", "replyToId", "role"} :
                     rejected[k][f] = activities[k][f]

\* three submissions: the first still 'sending', the second failed, the third confirmed
C32_Witness ==
  /\ Len(activities) = 3
  /\ activities[1] = OutgoingActivity(1)
  /\ activities[2] = [OutgoingActivity(2) EXCEPT !.status = "failed"]
  /\ activities[3] = EchoBack(3)

\* C33: every submission has its entry, and the entries of two submissions stand in the
\* order of their POST_ACTIVITY_PENDING (clientActivityIDs are handed out in that
\* order), in every state: whichever is confirmed or fails first.
C33_SubmissionOrder ==
  /\ \A c \in 1..nextClientId :
       \E k \in Positions : activities[k].clientActivityID = c
  /\ \A j, k \in Positions :
       (/\ j < k
        /\ activities[j].clientActivityID # NoId
        /\ activities[k].clientActivityID # NoId) =>
         activities[j].clientActivityID < activities[k].clientActivityID

\* the second submission is confirmed while the first is still 'sending'
C33_Witness ==
  \E j, k \in Positions :
    /\ j < k
    /\ activities[j].clientActivityID = 1 /\ activities[j].status = "sending"
    /\ activities[k].clientActivityID = 2 /\ activities[k].status = "sent"

\* C34: INCOMING_ACTIVITY with an activity that has no id appends the activity to the
\* transcript, whatever the transcript holds.
C34_NoIdNeverDuplicate ==
  \A a \in IncomingPayloads :
    a.id = NoId =>
      activitiesReducer(activities, Action("INCOMING_ACTIVITY", NoId, a)) = Append(activities, a)

\* the types of the actions dispatched for submission c
OutcomeTypes(c) == {outcomes[c][k].type : k \in 1..Len(outcomes[c])}

\* C35: when the simulated reply to submission c has been queued, c was confirmed and
\* never rejected, the reply never had to wait, and it stands in the transcript behind
\* the confirmed user activity it replies to.
C35_ReplyAfterConfirmedSend ==
  \A c \in ClientIds :
    BotId(c) \in ingested =>
      /\ "POST_ACTIVITY_FULFILLED" \in OutcomeTypes(c)
      /\ "POST_ACTIVITY_REJECTED" \notin OutcomeTypes(c)
      /\ BotId(c) \notin deferred \cup WaitingIds \cup warned
      /\ \E j, k \in Positions :
           /\ j < k
           /\ activities[j].id = EchoId(c) /\ activities[j].status = "sent"
           /\ activities[k].id = BotId(c) /\ activities[k].replyToId = EchoId(c)

\* the first submission failed and has no reply, the second was confirmed and has one
C35_Witness ==
  /\ "POST_ACTIVITY_REJECTED" \in OutcomeTypes(1)
  /\ BotId(1) \notin ingested
  /\ BotId(2) \in ingested
  /\ HasId(activities, BotId(2))

\* how many entries of the transcript carry the id
Occurrences(state, id) == Cardinality({k \in 1..Len(state) : state[k].id = id})

\* C36: an entry B whose parent is an inbound activity not in the transcript was released
\* by its timeout. When the parent A comes in after that, the entries before it keep
\* their places, A is added behind B, and B and A are in the transcript once each;
\* and no ingested activity is left out.
C36_LateParentAfterChild ==
  /\ [](\A k \in Positions :
          (activities[k].replyToId \in InboundIds /\ ~HasId(activities, activities[k].replyToId))
            => activities[k].id \in warned)
  /\ [](ingested \subseteq WaitingIds \cup InboundIn(activities))
  /\ [][\A j \in Positions :
          (/\ activities[j].replyToId \in InboundIds
           /\ ~HasId(activities, activities[j].replyToId)
           /\ HasId(activities', activities[j].replyToId)) =>
            /\ SubSeq(activities', 1, Len(activities)) = activities
            /\ Occurrences(activities', activities[j].id) = 1
            /\ Occurrences(activities', activities[j].replyToId) = 1
            /\ \E k \in (j + 1)..Len(activities') :
                 activities'[k].id = activities[j].replyToId]_vars

\* B (id 2, replying to 1) was released by its timeout, then A (id 1) came in
C36_Witness ==
  /\ Len(activities) = 2
  /\ activities[1].id = 2 /\ activities[1].replyToId = 1
  /\ activities[2].id = 1
  /\ 2 \in warned

====
